---- MODULE Spec2Model ----
(***************************************************************************)
(* The script literal scanner of lib/src/sql/script.rs.                    *)
(*                                                                         *)
(* A text is a sequence of characters, each its code point (a backtick     *)
(* cannot be written in a TLA+ string): 39 is ', 34 is ", 96 is `,         *)
(* 92 is \, 123 is {, 125 is }, and 97 (a) stands for any other character. *)
(* A parser takes the whole text s and the index p of the first character  *)
(* it may read (the nom input slice is s[p..]) and returns an IResult: Ok  *)
(* with the index of the first character it left, or Err::Error.  The      *)
(* combinators are the nom 7 "complete" ones, which never return           *)
(* Err::Incomplete and, as nothing here uses cut, never Err::Failure.      *)
(***************************************************************************)
EXTENDS Integers, Sequences, FiniteSets, TLC

VARIABLES input, pc, call, result, rendered, rescan

vars == <<input, pc, call, result, rendered, rescan>>

(***************************************************************************)
(* Bounds of the checked inputs.                                           *)
(***************************************************************************)
MaxLen == 5
MaxDepth == 4

(***************************************************************************)
(* The constants of the source.                                            *)
(***************************************************************************)
OBJECT_BEG == 123
OBJECT_END == 125

SINGLE == 39
BACKSLASH == 92
\* is_not given the quote alone: a backslash is then an ordinary character
SINGLE_ESC_quote_only == {SINGLE}

\* the character list r#"\'"# given to is_not
SINGLE_ESC == {BACKSLASH, SINGLE}
DOUBLE == 34
\* a string body that also stops at a brace
DOUBLE_ESC_with_braces == {BACKSLASH, DOUBLE, OBJECT_BEG, OBJECT_END}

DOUBLE_ESC == {BACKSLASH, DOUBLE}
BACKTICK == 96
BACKTICK_ESC == {BACKSLASH, BACKTICK}
\* the character list "{}'`\"" of char_any's is_not
ANY_STOP == {OBJECT_BEG, OBJECT_END, SINGLE, BACKTICK, DOUBLE}

Ok(p) == [kind |-> "Ok", pos |-> p]
Error == [kind |-> "Error", pos |-> 0]

(***************************************************************************)
(* nom combinators                                                         *)
(***************************************************************************)
\* the index of the first character of set in s[p..], or the index after
\* the end of s: where the longest run of characters outside set ends
SpanEnd(set, s, p) ==
  LET I == {i \in p..Len(s) : s[i] \in set} IN
  IF I = {} THEN Len(s) + 1 ELSE CHOOSE i \in I : \A j \in I : i <= j

\* bytes::complete::is_not: one or more characters outside set
is_not(set, s, p) ==
  LET e == SpanEnd(set, s, p) IN IF e = p THEN Error ELSE Ok(e)

\* bytes::complete::tag of the one-character tag c
tag(c, s, p) ==
  IF p <= Len(s) /\ s[p] = c THEN Ok(p + 1) ELSE Error

\* bytes::complete::tag(""): matches without consuming
tag_empty(s, p) == Ok(p)

\* character::complete::one_of of the one-character list c
one_of(c, s, p) ==
  IF p <= Len(s) /\ s[p] = c THEN Ok(p + 1) ELSE Error

RECURSIVE escaped_loop(_, _, _, _, _)
\* the while loop of bytes::complete::escaped(is_not(esc), '\\', one_of(q)),
\* called on the slice s[start..], its cursor at i
escaped_loop(esc, q, s, start, i) ==
  IF i > Len(s) THEN Ok(Len(s) + 1)
  ELSE LET n == is_not(esc, s, i) IN
    IF n.kind = "Ok"
    THEN IF n.pos > Len(s) THEN Ok(Len(s) + 1)
         ELSE IF n.pos = i THEN Ok(n.pos)
         ELSE escaped_loop(esc, q, s, start, n.pos)
    ELSE IF s[i] = BACKSLASH
         THEN IF i + 1 > Len(s) THEN Error
              ELSE LET e == one_of(q, s, i + 1) IN
                   IF e.kind = "Ok"
                   THEN IF e.pos > Len(s) THEN Ok(Len(s) + 1)
                        ELSE escaped_loop(esc, q, s, start, e.pos)
                   ELSE Error
         ELSE IF i = start THEN Error ELSE Ok(i)

escaped(esc, q, s, p) == escaped_loop(esc, q, s, p, p)

(***************************************************************************)
(* The parsers of script.rs                                                *)
(***************************************************************************)
char_any(s, p) == is_not(ANY_STOP, s, p)

string_single(s, p) ==
  LET a == tag(SINGLE, s, p) IN
  IF a.kind = "Error" THEN Error
  ELSE LET e == escaped(SINGLE_ESC, SINGLE, s, a.pos)
           v == IF e.kind = "Ok" THEN e ELSE tag_empty(s, a.pos)
       IN tag(SINGLE, s, v.pos)

string_double(s, p) ==
  LET a == tag(DOUBLE, s, p) IN
  IF a.kind = "Error" THEN Error
  ELSE LET e == escaped(DOUBLE_ESC, DOUBLE, s, a.pos)
           v == IF e.kind = "Ok" THEN e ELSE tag_empty(s, a.pos)
       IN tag(DOUBLE, s, v.pos)

string_backtick(s, p) ==
  LET a == tag(BACKTICK, s, p) IN
  IF a.kind = "Error" THEN Error
  ELSE LET e == escaped(BACKTICK_ESC, BACKTICK, s, a.pos)
           v == IF e.kind = "Ok" THEN e ELSE tag_empty(s, a.pos)
       IN tag(BACKTICK, s, v.pos)

RECURSIVE script_raw(_, _), char_object(_, _), script_alt(_, _), many1_loop(_, _)

\* alt((char_any, char_object, string_single, string_double, string_backtick))
script_alt(s, p) ==
  LET r1 == char_any(s, p) IN
  IF r1.kind = "Ok" THEN r1 ELSE
  LET r2 == char_object(s, p) IN
  IF r2.kind = "Ok" THEN r2 ELSE
  LET r3 == string_single(s, p) IN
  IF r3.kind = "Ok" THEN r3 ELSE
  LET r4 == string_double(s, p) IN
  IF r4.kind = "Ok" THEN r4 ELSE
  string_backtick(s, p)

\* the loop of multi::many1 after its first element
many1_loop(s, i) ==
  LET r == script_alt(s, i) IN
  IF r.kind = "Error" THEN Ok(i)
  ELSE IF r.pos = i THEN Error
  ELSE many1_loop(s, r.pos)

\* many0 in place of many1: an empty run is accepted
script_raw_many0(s, p) == many1_loop(s, p)

script_raw(s, p) ==
  LET r == script_alt(s, p) IN
  IF r.kind = "Error" THEN Error ELSE many1_loop(s, r.pos)

\* the group's body scanned as plain text only, without the recursion
char_object_flat(s, p) ==
  LET a == tag(OBJECT_BEG, s, p) IN
  IF a.kind = "Error" THEN Error
  ELSE LET v == char_any(s, a.pos) IN
       IF v.kind = "Error" THEN Error
       ELSE tag(OBJECT_END, s, v.pos)

\* the closing brace not required
char_object_open(s, p) ==
  LET a == tag(OBJECT_BEG, s, p) IN
  IF a.kind = "Error" THEN Error
  ELSE script_raw(s, a.pos)

char_object(s, p) ==
  LET a == tag(OBJECT_BEG, s, p) IN
  IF a.kind = "Error" THEN Error
  ELSE LET v == script_raw(s, a.pos) IN
       IF v.kind = "Error" THEN Error
       ELSE tag(OBJECT_END, s, v.pos)

(***************************************************************************)
(* Script and the public entry point                                       *)
(***************************************************************************)
Script(v) == [text |-> v]
ScriptFrom(s) == Script(s)
Deref(x) == x.text
Display(x) == x.text

\* the input a parser leaves: the slice from index p on
Rest(s, p) == SubSeq(s, p, Len(s))

\* combinator::recognize: the span of s[p..] the parser consumed
recognize(s, p, r) == SubSeq(s, p, r.pos - 1)

\* the literal built from the whole input instead of the recognized span
script_whole(s) ==
  LET r == script_raw(s, 1) IN
  IF r.kind = "Error" THEN [kind |-> "Error"]
  ELSE [kind |-> "Ok", rem |-> Rest(s, r.pos), out |-> Script(s)]

script(s) ==
  LET r == script_raw(s, 1) IN
  IF r.kind = "Error" THEN [kind |-> "Error"]
  ELSE [kind |-> "Ok", rem |-> Rest(s, r.pos),
        out |-> Script(recognize(s, 1, r))]

\* what a caller sees of one of the inner parsers applied to the text s
Returned(s, r) ==
  IF r.kind = "Error" THEN [kind |-> "Error"]
  ELSE [kind |-> "Ok", rem |-> Rest(s, r.pos)]

(***************************************************************************)
(* Inputs                                                                  *)
(***************************************************************************)
\* a character that is none of the seven above
PLAIN == 97

Chars == {PLAIN, OBJECT_BEG, OBJECT_END, SINGLE, DOUBLE, BACKTICK, BACKSLASH}

RECURSIVE Texts(_)
Texts(n) ==
  IF n = 0 THEN {<<>>}
  ELSE LET T == Texts(n - 1) IN
       T \cup {Append(t, c) : t \in {u \in T : Len(u) = n - 1}, c \in Chars}

RECURSIVE Nest(_, _)
\* n brace groups around the text a, pad between the braces
Nest(n, pad) ==
  IF n = 0 THEN <<PLAIN>>
  ELSE <<OBJECT_BEG>> \o pad \o Nest(n - 1, pad) \o pad \o <<OBJECT_END>>

Pads == {<<>>, <<PLAIN>>}

NestedInputs ==
  {pre \o Nest(n, pad) \o suf :
     n \in 1..MaxDepth, pad \in Pads, pre \in Pads, suf \in Pads}

(***************************************************************************)
(* The texts of the four tests of the source.                              *)
(***************************************************************************)
\* "return true;"
script_basic ==
  <<114, 101, 116, 117, 114, 110, 32, 116, 114, 117, 101, 59>>

\* "return { test: true, something: { other: true } };"
script_object ==
  <<114, 101, 116, 117, 114, 110, 32, 123, 32, 116, 101, 115, 116, 58, 32,
    116, 114, 117, 101, 44, 32, 115, 111, 109, 101, 116, 104, 105, 110, 103,
    58, 32, 123, 32, 111, 116, 104, 101, 114, 58, 32, 116, 114, 117, 101,
    32, 125, 32, 125, 59>>

\* "return this.values.map(v => `This value is ${Number(v * 3)}`);"
script_closure ==
  <<114, 101, 116, 117, 114, 110, 32, 116, 104, 105, 115, 46, 118, 97, 108,
    117, 101, 115, 46, 109, 97, 112, 40, 118, 32, 61, 62, 32, 96, 84, 104,
    105, 115, 32, 118, 97, 108, 117, 101, 32, 105, 115, 32, 36, 123, 78,
    117, 109, 98, 101, 114, 40, 118, 32, 42, 32, 51, 41, 125, 96, 41, 59>>

\* r#"return { test: true, some: { object: "some text with uneven {{{ {} \" brackets",
\* else: false } };"#
script_complex ==
  <<114, 101, 116, 117, 114, 110, 32, 123, 32, 116, 101, 115, 116, 58, 32,
    116, 114, 117, 101, 44, 32, 115, 111, 109, 101, 58, 32, 123, 32, 111,
    98, 106, 101, 99, 116, 58, 32, 34, 115, 111, 109, 101, 32, 116, 101,
    120, 116, 32, 119, 105, 116, 104, 32, 117, 110, 101, 118, 101, 110, 32,
    123, 123, 123, 32, 123, 125, 32, 92, 34, 32, 98, 114, 97, 99, 107, 101,
    116, 115, 34, 44, 32, 101, 108, 115, 101, 58, 32, 102, 97, 108, 115,
    101, 32, 125, 32, 125, 59>>

TestInputs == {script_basic, script_object, script_closure, script_complex}

Inputs == Texts(MaxLen) \cup NestedInputs \cup TestInputs

None == [kind |-> "None"]

(***************************************************************************)
(* The state machine: a caller holds an input text and applies a parser    *)
(* to it; a successful script is then rendered and its text scanned again. *)
(***************************************************************************)
Init ==
  /\ input \in Inputs
  /\ pc = "start"
  /\ call = "none"
  /\ result = None
  /\ rendered = <<>>
  /\ rescan = None

Scan ==
  /\ pc = "start"
  /\ result' = script(input)
  /\ call' = "script"
  /\ pc' = "returned"
  /\ UNCHANGED <<input, rendered, rescan>>

StringSingle ==
  /\ pc = "start"
  /\ result' = Returned(input, string_single(input, 1))
  /\ call' = "string_single"
  /\ pc' = "returned"
  /\ UNCHANGED <<input, rendered, rescan>>

StringDouble ==
  /\ pc = "start"
  /\ result' = Returned(input, string_double(input, 1))
  /\ call' = "string_double"
  /\ pc' = "returned"
  /\ UNCHANGED <<input, rendered, rescan>>

StringBacktick ==
  /\ pc = "start"
  /\ result' = Returned(input, string_backtick(input, 1))
  /\ call' = "string_backtick"
  /\ pc' = "returned"
  /\ UNCHANGED <<input, rendered, rescan>>

CharObject ==
  /\ pc = "start"
  /\ result' = Returned(input, char_object(input, 1))
  /\ call' = "char_object"
  /\ pc' = "returned"
  /\ UNCHANGED <<input, rendered, rescan>>

Render ==
  /\ pc = "returned"
  /\ call = "script"
  /\ result.kind = "Ok"
  /\ rendered' = Display(result.out)
  /\ pc' = "rendered"
  /\ UNCHANGED <<input, call, result, rescan>>

Rescan ==
  /\ pc = "rendered"
  /\ rescan' = script(Deref(result.out))
  /\ pc' = "rescanned"
  /\ UNCHANGED <<input, call, result, rendered>>

Next ==
  \/ Scan
  \/ StringSingle
  \/ StringDouble
  \/ StringBacktick
  \/ CharObject
  \/ Render
  \/ Rescan

Spec == Init /\ [][Next]_vars

TypeOK ==
  /\ pc \in {"start", "returned", "rendered", "rescanned"}
  /\ result.kind \in {"None", "Ok", "Error"}

(***************************************************************************)
(* The reading of a text that the claims speak of, found by one pass from  *)
(* left to right and not by the parsers: every character is plain text, an *)
(* opening or closing brace, a string's quote, or part of a string's body. *)
(* In a string a backslash and the character after it are a pair; q is the *)
(* quote of the string the character is in, 0 outside strings.  The text   *)
(* is read by halves, so that a long text needs no deep recursion.         *)
(***************************************************************************)
Quotes == {SINGLE, DOUBLE, BACKTICK}

\* the class of the character s[i] read in mode m, and the mode after it.
\* A mode is 0 outside strings, the quote q inside a string, and -q after
\* the backslash of a pair inside it.
ClassOf(s, i, m) ==
  IF m = 0
  THEN IF s[i] \in Quotes THEN [k |-> "quote", q |-> s[i], m |-> s[i]]
       ELSE IF s[i] = OBJECT_BEG THEN [k |-> "open", q |-> 0, m |-> 0]
       ELSE IF s[i] = OBJECT_END THEN [k |-> "close", q |-> 0, m |-> 0]
       ELSE [k |-> "text", q |-> 0, m |-> 0]
  ELSE IF m < 0 THEN [k |-> "escd", q |-> -m, m |-> -m]
  ELSE IF s[i] = m THEN [k |-> "quote", q |-> m, m |-> 0]
  ELSE IF s[i] = BACKSLASH /\ i < Len(s) THEN [k |-> "esc", q |-> m, m |-> -m]
  ELSE [k |-> "body", q |-> m, m |-> m]

RECURSIVE Classes(_, _, _, _)
\* the classes of s[lo..hi] read from mode m, by halves
Classes(s, lo, hi, m) ==
  IF lo > hi THEN <<>>
  ELSE IF lo = hi THEN <<ClassOf(s, lo, m)>>
  ELSE LET mid == (lo + hi) \div 2
           l == Classes(s, lo, mid, m)
       IN l \o Classes(s, mid + 1, hi, l[Len(l)].m)

Reading(s) == Classes(s, 1, Len(s), 0)

\* the number of positions up to n of class k
Count(c, k, n) == Cardinality({i \in 1..n : c[i].k = k})

\* the brace nesting depth after the first n characters
Depth(c, n) == Count(c, "open", n) - Count(c, "close", n)

NeverNegative(c) == \A n \in 1..Len(c) : Depth(c, n) >= 0

Balanced(c) == NeverNegative(c) /\ Depth(c, Len(c)) = 0

\* every string that is opened is closed
Terminated(c) == Count(c, "quote", Len(c)) % 2 = 0

\* no brace group with nothing between its braces
NonEmptyGroups(c) ==
  \A i \in 1..Len(c) - 1 : c[i].k = "open" => c[i + 1].k # "close"

\* a script literal as the grammar gives it: one or more plain-text runs,
\* brace groups around a script literal, and terminated quoted strings
WellFormed(s) ==
  LET c == Reading(s) IN
  Len(s) >= 1 /\ Balanced(c) /\ Terminated(c) /\ NonEmptyGroups(c)

\* every escaped character is the quote of its own string
OwnEscapes(s) ==
  LET c == Reading(s) IN
  \A i \in 1..Len(s) : c[i].k = "escd" => s[i] = c[i].q

\* some escaped character is not the quote of its own string
ForeignEscape(s) == ~OwnEscapes(s)

\* the text ends inside a string or inside a brace group
Unterminated(s) ==
  LET c == Reading(s) IN
  NeverNegative(c) /\ (~Terminated(c) \/ Depth(c, Len(c)) > 0)

\* the index of the quote that closes the string opened at index 1, or 0
CloseIndex(s) ==
  LET c == Reading(s)
      I == {i \in 2..Len(s) : c[i].k = "quote"}
  IN IF I = {} THEN 0 ELSE CHOOSE i \in I : \A j \in I : i <= j

\* the index of the brace that closes the group opened at index 1, or 0
GroupEnd(s) ==
  LET c == Reading(s)
      I == {n \in 1..Len(s) : Depth(c, n) = 0}
  IN IF I = {} THEN 0 ELSE CHOOSE i \in I : \A j \in I : i <= j

\* the last quote of the reading opens a string that is never closed
LastQuote(c) ==
  LET I == {i \in 1..Len(c) : c[i].k = "quote"}
  IN IF I = {} THEN 0 ELSE CHOOSE i \in I : \A j \in I : j <= i

InTerminatedString(c, i) ==
  /\ c[i].k \in {"body", "esc", "escd"}
  /\ (Terminated(c) \/ i < LastQuote(c))

\* a brace or a quote of another style in the body of a terminated string
OpaqueAt(s, c, i) ==
  /\ InTerminatedString(c, i)
  /\ c[i].k = "body"
  /\ s[i] \in ({OBJECT_BEG, OBJECT_END} \cup Quotes) \ {c[i].q}

\* the text with each such character replaced by a plain character
Mask(s) ==
  LET c == Reading(s) IN
  [i \in 1..Len(s) |-> IF OpaqueAt(s, c, i) THEN PLAIN ELSE s[i]]

Consumed == Len(input) - Len(result.rem)

Scanned == pc # "start" /\ call = "script"

QuoteOf(f) ==
  IF f = "string_single" THEN SINGLE
  ELSE IF f = "string_double" THEN DOUBLE
  ELSE IF f = "string_backtick" THEN BACKTICK ELSE 0

StringCalled == pc = "returned" /\ QuoteOf(call) # 0

(***************************************************************************)
(* C1.  Round trip: for every well-formed script literal s, script(s)      *)
(* succeeds with an empty remainder, the Script it returns equals          *)
(* Script::from(s), and Display renders it as exactly s.                   *)
(***************************************************************************)
C1_RoundTrip ==
  (Scanned /\ WellFormed(input)) =>
     /\ result.kind = "Ok"
     /\ result.rem = <<>>
     /\ result.out = ScriptFrom(input)
     /\ (pc \in {"rendered", "rescanned"} => rendered = input)

(***************************************************************************)
(* C4.  Unterminated failure: on an input that ends inside a string or     *)
(* inside a brace group, script returns an incomplete failure: never a     *)
(* success with the text before the open construct, nor the no-match       *)
(* error.                                                                  *)
(***************************************************************************)
C4_UnterminatedFails ==
  (Scanned /\ Unterminated(input)) => result.kind = "Incomplete"

(***************************************************************************)
(* C8.  In a quoted string a backslash escapes the character after it,     *)
(* whatever it is: a string whose body holds a backslash before a          *)
(* character that is not its quote is accepted up to its closing quote.    *)
(***************************************************************************)
C8_AnyEscape ==
  (/\ StringCalled
   /\ Len(input) >= 1 /\ input[1] = QuoteOf(call)
   /\ CloseIndex(input) # 0
   /\ ForeignEscape(SubSeq(input, 1, CloseIndex(input)))) =>
     /\ result.kind = "Ok"
     /\ Consumed = CloseIndex(input)

(***************************************************************************)
(* C9.  Top boundary: when script succeeds, the remainder is empty or      *)
(* begins with a closing brace.                                            *)
(***************************************************************************)
C9_TopBoundary ==
  (Scanned /\ result.kind = "Ok") =>
     (result.rem = <<>> \/ Head(result.rem) = OBJECT_END)

(***************************************************************************)
(* C2.  String opacity: a brace or a quote of another style in the body    *)
(* of a terminated string is plain string content.  Replacing each by a    *)
(* plain character changes neither the outcome of script nor how much it   *)
(* consumes; a well-formed input whose strings escape only their own quote *)
(* is consumed in full whatever braces its strings hold; and the brace     *)
(* that closes a group char_object accepts is the first closing brace      *)
(* outside strings that brings the depth back to zero.                     *)
(***************************************************************************)
C2_StringOpacity ==
  /\ Scanned =>
       LET m == script(Mask(input)) IN
       /\ m.kind = result.kind
       /\ result.kind = "Ok" => Len(m.rem) = Len(result.rem)
  /\ (Scanned /\ WellFormed(input) /\ OwnEscapes(input)) =>
       (result.kind = "Ok" /\ result.rem = <<>>)
  /\ (pc = "returned" /\ call = "char_object" /\ result.kind = "Ok") =>
       (Consumed = GroupEnd(input) /\ Reading(input)[Consumed].k = "close")

\* a group holding a string with a brace in it was scanned in full
C2_Witness ==
  /\ Scanned /\ result.kind = "Ok" /\ result.rem = <<>>
  /\ input[1] = OBJECT_BEG
  /\ \E i \in 1..Len(input) :
       /\ OpaqueAt(input, Reading(input), i)
       /\ input[i] = OBJECT_END

(***************************************************************************)
(* C3.  Escape handling: a string parser that succeeds ends at the first   *)
(* quote of its style that no backslash escapes, so a backslash followed   *)
(* by the quote does not close the string; and it does succeed on every    *)
(* input that opens with its quote, has such a closing quote and escapes   *)
(* only that quote before it.                                              *)
(***************************************************************************)
C3_EscapedQuote ==
  /\ (StringCalled /\ result.kind = "Ok") =>
       (input[1] = QuoteOf(call) /\ Consumed = CloseIndex(input))
  /\ (/\ StringCalled
      /\ Len(input) >= 1 /\ input[1] = QuoteOf(call)
      /\ CloseIndex(input) # 0
      /\ OwnEscapes(SubSeq(input, 1, CloseIndex(input)))) =>
       result.kind = "Ok"

\* a string with an escaped quote as the last character of its body
C3_Witness ==
  /\ StringCalled /\ result.kind = "Ok"
  /\ Consumed >= 4
  /\ input[Consumed - 2] = BACKSLASH
  /\ input[Consumed - 1] = QuoteOf(call)

(***************************************************************************)
(* C5.  Nested braces: n brace groups nested in one another around a text, *)
(* with or without text around them, are scanned with nothing left, and    *)
(* the literal's text is the whole input, every brace included.            *)
(***************************************************************************)
C5_NestedBraces ==
  (Scanned /\ input \in NestedInputs \cup {script_object}) =>
     /\ result.kind = "Ok"
     /\ result.rem = <<>>
     /\ Deref(result.out) = input
     /\ (pc \in {"rendered", "rescanned"} => rendered = input)

\* the deepest nesting of the bound was scanned
C5_Witness ==
  /\ pc = "rendered"
  /\ \E pad \in Pads : input = <<PLAIN>> \o Nest(MaxDepth, pad) \o <<PLAIN>>
  /\ rendered = input

(***************************************************************************)
(* C6.  Balance: in the text of a literal script returns, the opening      *)
(* braces outside strings are as many as the closing ones, and no prefix   *)
(* of the text has more closing than opening ones.                         *)
(***************************************************************************)
C6_Balance ==
  (Scanned /\ result.kind = "Ok") => Balanced(Reading(Deref(result.out)))

\* a literal with a brace group, cut before a closing brace nothing opened
C6_Witness ==
  /\ Scanned /\ result.kind = "Ok"
  /\ Count(Reading(Deref(result.out)), "open", Len(Deref(result.out))) >= 1
  /\ result.rem # <<>>

(***************************************************************************)
(* C7.  Verbatim prefix and rescan: when script(i) succeeds with text t    *)
(* and remainder r, t is not empty, t followed by r is i, and script(t)    *)
(* succeeds with the same literal and an empty remainder.                  *)
(***************************************************************************)
C7_PrefixRescan ==
  /\ (Scanned /\ result.kind = "Ok") =>
       /\ Len(Deref(result.out)) >= 1
       /\ Deref(result.out) \o result.rem = input
  /\ pc = "rescanned" =>
       rescan = [kind |-> "Ok", rem |-> <<>>, out |-> result.out]

\* a literal that is a proper prefix of the input was scanned again
C7_Witness ==
  /\ pc = "rescanned"
  /\ result.rem # <<>>
  /\ Len(Deref(result.out)) >= 2

(***************************************************************************)
(* C10.  A brace group has a body: char_object fails on an input that      *)
(* begins with {}, script fails on such an input, script on plain text     *)
(* followed by {} returns the plain text and leaves the rest, while each   *)
(* string parser accepts its empty string.                                 *)
(***************************************************************************)
EmptyGroupAt(s, i) ==
  i + 1 <= Len(s) /\ s[i] = OBJECT_BEG /\ s[i + 1] = OBJECT_END

C10_EmptyGroup ==
  /\ (pc = "returned" /\ call = "char_object" /\ EmptyGroupAt(input, 1)) =>
       result.kind = "Error"
  /\ (Scanned /\ EmptyGroupAt(input, 1)) => result.kind = "Error"
  /\ Scanned =>
       \A n \in 1..Len(input) :
         ((\A j \in 1..n : input[j] \notin {OBJECT_BEG, OBJECT_END} \cup Quotes)
            /\ EmptyGroupAt(input, n + 1)) =>
           (result.kind = "Ok" /\ Consumed = n)
  /\ (/\ StringCalled
      /\ Len(input) >= 2
      /\ input[1] = QuoteOf(call) /\ input[2] = QuoteOf(call)) =>
       (result.kind = "Ok" /\ Consumed = 2)

\* plain text before an empty group: the scan stopped at the group
C10_Witness ==
  /\ Scanned /\ result.kind = "Ok"
  /\ result.rem # <<>>
  /\ EmptyGroupAt(result.rem, 1)
====
